---------------------------- MODULE Spec2Model ----------------------------
(* A model of the Filament front end: the translation of interval facts   *)
(* into solver formulas (interval_checking/fact.rs), the solver session   *)
(* of the discharge engine, the driver (main.rs), the error conversions   *)
(* (errors.rs) and the signature parser (frontend/parser.rs).             *)
EXTENDS Integers, Sequences, FiniteSets, TLC

VARIABLES
    \* ---- fact translation (interval_checking/fact.rs)
    fact,       \* the Fact under translation, or NoFact
    sexp,       \* the SExp the conversion returned, or NoSExp
    fstage,     \* "new" | "built" | "converted" | "aborted"
    env         \* the solver's integer assignment of the time variables

VARIABLES
    \* ---- solver session of the discharge engine
    sstate,     \* "Idle" | "Declared" | "Closed"
    depth,      \* push depth of the solver's assertion stack
    cmds,       \* the commands sent so far, each with the state it was sent in
    nfacts,     \* number of facts the component emitted
    idx,        \* index of the fact being discharged
    spc,        \* position of the discharger
    answers,    \* the solver's check-sat answers so far
    diags,      \* the diagnostic list
    dresult,    \* "running" | "ok" | "diagnostics" | "fatal"
    derr,       \* the fatal Error value, or NoError
    show_models \* the driver's --show-models flag

VARIABLES
    \* ---- the driver (main.rs)
    opts,       \* cmdline::Opts
    requires_gen, \* ns.requires_gen()
    rpc,        \* position in run / main
    trace,      \* the passes run so far, in order
    rres,       \* what run returned: NoResult, Ok, Err(n), or Panicked
    outputs,    \* files and backend output written so far, in order
    stderr,     \* lines printed to stderr, in order
    exitcode    \* exit status of the process, NoExit while it runs

VARIABLES
    \* ---- the signature parser (frontend/parser.rs)
    pd_in,      \* the children of the port_def node being parsed
    pd_out,     \* what port_def returned: NoParse, POk(PdOrInt) or PErr(msg)
    io_in,      \* the children of the io node being parsed
    io_out,     \* what io returned: NoParse, POk(<<ins, outs, interface>>) or PErr(msg)
    \* ---- canonical time expressions
    cexpr,      \* the time expression the parser built
    cout,       \* its canonical form, NoTime before canonicalize has run
    cstage      \* "parsed" | "canonical"

factVars == <<fact, sexp, fstage, env>>
sessVars == <<sstate, depth, cmds, nfacts, idx, spc, answers, diags, dresult,
              derr, show_models>>

runVars == <<opts, requires_gen, rpc, trace, rres, outputs, stderr, exitcode>>

parseVars == <<pd_in, pd_out, io_in, io_out>>
canonVars == <<cexpr, cout, cstage>>

vars == <<factVars, sessVars, runVars, parseVars, canonVars>>

-----------------------------------------------------------------------------
(* Bounds of the model.                                                    *)

\* largest constant of a time expression
MaxConcrete == 2
\* largest value the solver assigns to an abstract time variable
MaxAssign == 2
\* largest number of facts one component emits
MaxFacts == 3
\* largest error count a failing pass reports
MaxErrors == 2
\* largest number of Add / Max nodes of a time expression to canonicalize
MaxOps == 2
\* largest constant of a time expression to canonicalize
MaxCanonConst == 1
\* most port definitions on one side of the arrow of an io node
MaxPorts == 2

-----------------------------------------------------------------------------
(* Time expressions (IntervalTime) as the parser builds them.              *)

TimeVars == {"T"}

Concrete(n) == [tag |-> "Concrete", n |-> n]
Abstract(v) == [tag |-> "Abstract", v |-> v]
binop_add(l, r) == [tag |-> "Add", l |-> l, r |-> r]
binop_max(l, r) == [tag |-> "Max", l |-> l, r |-> r]

\* The time expressions the model draws interval endpoints from:
\* n, T, T+n and max(T, n).
TimeBases ==
    {Concrete(n) : n \in 0..MaxConcrete} \cup {Abstract(v) : v \in TimeVars}
TimeExprs ==
    TimeBases
    \cup {binop_add(Abstract(v), Concrete(n)) : v \in TimeVars, n \in 1..MaxConcrete}
    \cup {binop_max(Abstract(v), Concrete(n)) : v \in TimeVars, n \in 1..MaxConcrete}

\* The integer a time expression denotes under an assignment of the
\* abstract variables.
RECURSIVE TimeValue(_, _)
TimeValue(t, a) ==
    CASE t.tag = "Concrete" -> t.n
      [] t.tag = "Abstract" -> a[t.v]
      [] t.tag = "Add" -> TimeValue(t.l, a) + TimeValue(t.r, a)
      [] t.tag = "Max" ->
            LET x == TimeValue(t.l, a)
                y == TimeValue(t.r, a)
            IN  IF x <= y THEN y ELSE x

\* core::Interval { start, end }: the half-open range [start, end)
Interval(s, e) == [start |-> s, end |-> e]
Intervals == {Interval(s, e) : s \in TimeExprs, e \in TimeExprs}

\* every cycle a bounded interval endpoint can denote
Cycles == 0..(MaxConcrete + MaxAssign)

-----------------------------------------------------------------------------
(* S-expressions. The text "(op a b)" is kept as the tree <<"op", a, b>>;  *)
(* atoms are <<"var", name>> and <<"num", n>>.                             *)

SVar(v) == <<"var", v>>
SNum(n) == <<"num", n>>
SApp2(op, a, b) == <<op, a, b>>
SIte(c, a, b) == <<"ite", c, a, b>>

\* SExp::from(&IntervalTime): an integer variable per abstract, (+) for
\* Add and (ite (<= a b) b a) for Max.
RECURSIVE TimeToSExp(_)
TimeToSExp(t) ==
    CASE t.tag = "Concrete" -> SNum(t.n)
      [] t.tag = "Abstract" -> SVar(t.v)
      [] t.tag = "Add" -> SApp2("+", TimeToSExp(t.l), TimeToSExp(t.r))
      [] t.tag = "Max" ->
            LET a == TimeToSExp(t.l)
                b == TimeToSExp(t.r)
            IN  SIte(SApp2("<=", a, b), b, a)

\* The solver's reading of a term and of a formula (SMT-LIB, linear
\* integer arithmetic) under the assignment a.
RECURSIVE EvalTerm(_, _)
EvalTerm(s, a) ==
    CASE s[1] = "num" -> s[2]
      [] s[1] = "var" -> a[s[2]]
      [] s[1] = "+" -> EvalTerm(s[2], a) + EvalTerm(s[3], a)
      [] s[1] = "ite" ->
            LET c == s[2]
                holds == CASE c[1] = "<=" -> EvalTerm(c[2], a) <= EvalTerm(c[3], a)
                           [] c[1] = ">=" -> EvalTerm(c[2], a) >= EvalTerm(c[3], a)
                           [] c[1] = "=" -> EvalTerm(c[2], a) = EvalTerm(c[3], a)
            IN  IF holds THEN EvalTerm(s[3], a) ELSE EvalTerm(s[4], a)

RECURSIVE EvalFormula(_, _)
EvalFormula(s, a) ==
    CASE s[1] = "and" -> EvalFormula(s[2], a) /\ EvalFormula(s[3], a)
      [] s[1] = "not" -> ~EvalFormula(s[2], a)
      [] s[1] = "<=" -> EvalTerm(s[2], a) <= EvalTerm(s[3], a)
      [] s[1] = ">=" -> EvalTerm(s[2], a) >= EvalTerm(s[3], a)
      [] s[1] = "=" -> EvalTerm(s[2], a) = EvalTerm(s[3], a)

-----------------------------------------------------------------------------
(* Facts and their translation (interval_checking/fact.rs).                *)

NoFact == [tag |-> "None"]
NoSExp == <<"none">>

\* Fact::equality
Fact_equality(left, right) == [tag |-> "Equality", left |-> left, right |-> right]
\* Fact::subset
Fact_subset(left, right) == [tag |-> "Subset", left |-> left, right |-> right]

\* todo!("Converting equality facts into z3 asserts"): the conversion panics
TodoPanic == <<"panic", "not yet implemented: Converting equality facts into z3 asserts">>

\* the Subset arm with the operands of the two comparisons exchanged
SubsetSExpSwapped(f) ==
    SApp2("and",
          SApp2("<=", TimeToSExp(f.left.start), TimeToSExp(f.right.start)),
          SApp2(">=", TimeToSExp(f.left.end), TimeToSExp(f.right.end)))

\* the Subset arm with the first comparison turned around
SubsetSExpStartGe(f) ==
    SApp2("and",
          SApp2(">=", TimeToSExp(f.right.start), TimeToSExp(f.left.start)),
          SApp2(">=", TimeToSExp(f.right.end), TimeToSExp(f.left.end)))

\* the Subset arm with the right end compared against the left start
SubsetSExpWrongEnd(f) ==
    SApp2("and",
          SApp2("<=", TimeToSExp(f.right.start), TimeToSExp(f.left.start)),
          SApp2(">=", TimeToSExp(f.right.end), TimeToSExp(f.left.start)))

\* the Subset arm: format!("(and (<= {} {}) (>= {} {}))", rs, ls, re, le)
SubsetSExp(f) ==
    LET ls == f.left.start
        le == f.left.end
        rs == f.right.start
        re == f.right.end
    IN  SApp2("and",
              SApp2("<=", TimeToSExp(rs), TimeToSExp(ls)),
              SApp2(">=", TimeToSExp(re), TimeToSExp(le)))

\* impl From<&Fact> for SExp
FactToSExp(f) ==
    CASE f.tag = "Equality" -> TodoPanic
      [] f.tag = "Subset" -> SubsetSExp(f)

FactInit ==
    /\ fact = NoFact
    /\ sexp = NoSExp
    /\ fstage = "new"
    /\ env \in [TimeVars -> 0..MaxAssign]

FactIdle ==
    /\ fact = NoFact
    /\ sexp = NoSExp
    /\ fstage = "new"
    /\ env = [v \in TimeVars |-> 0]

\* a caller builds a Subset fact
MkSubset ==
    /\ fstage = "new"
    /\ \E l \in Intervals, r \in Intervals : fact' = Fact_subset(l, r)
    /\ fstage' = "built"
    /\ UNCHANGED <<sexp, env>>
    /\ UNCHANGED <<sessVars, runVars, parseVars, canonVars>>

\* a caller builds an Equality fact
MkEquality ==
    /\ fstage = "new"
    /\ \E l \in Intervals, r \in Intervals : fact' = Fact_equality(l, r)
    /\ fstage' = "built"
    /\ UNCHANGED <<sexp, env>>
    /\ UNCHANGED <<sessVars, runVars, parseVars, canonVars>>

\* SExp::from(&fact): returns the formula, or unwinds when the arm panics
ConvertFact ==
    /\ fstage = "built"
    /\ LET out == FactToSExp(fact)
       IN  IF out = TodoPanic
           THEN /\ fstage' = "aborted"
                /\ UNCHANGED sexp
           ELSE /\ fstage' = "converted"
                /\ sexp' = out
    /\ UNCHANGED <<fact, env>>
    /\ UNCHANGED <<sessVars, runVars, parseVars, canonVars>>

FactNext == MkSubset \/ MkEquality \/ ConvertFact

-----------------------------------------------------------------------------
(* Properties of the fact translation.                                     *)

ConvertedSubset == fstage = "converted" /\ fact.tag = "Subset"

LS == TimeValue(fact.left.start, env)
LE == TimeValue(fact.left.end, env)
RS == TimeValue(fact.right.start, env)
RE == TimeValue(fact.right.end, env)

\* C1: the formula produced for Subset([ls, le), [rs, re)) is true under
\* the assignment exactly when rs <= ls and le <= re.
C1_SubsetFormula ==
    ConvertedSubset => (EvalFormula(sexp, env) <=> (RS <= LS /\ LE <= RE))

\* C1 witness: a converted Subset fact whose two sides differ, so that
\* exchanging left and right would change the formula's truth.
C1_Witness ==
    /\ ConvertedSubset
    /\ EvalFormula(sexp, env)
    /\ ~(LS <= RS /\ RE <= LE)

\* set inclusion of the half-open ranges [ls, le) and [rs, re)
RangeIncluded ==
    \A t \in Cycles : (LS <= t /\ t < LE) => (RS <= t /\ t < RE)

\* C2 as stated: the Subset formula holds iff every cycle of the left
\* range is a cycle of the right range, empty ranges included.
C2_SetInclusion ==
    ConvertedSubset => (EvalFormula(sexp, env) <=> RangeIncluded)

\* C2 amended: the equivalence holds when the left range is not empty;
\* in every case the formula implies the inclusion.
C2_SetInclusionNonEmpty ==
    ConvertedSubset =>
        /\ (LS < LE) => (EvalFormula(sexp, env) <=> RangeIncluded)
        /\ EvalFormula(sexp, env) => RangeIncluded

\* C2 witness: a non-empty left range included in the right range.
C2_Witness ==
    /\ ConvertedSubset
    /\ LS < LE
    /\ RangeIncluded
    /\ EvalFormula(sexp, env)

\* C3 as stated: converting an Equality fact [a, b) = [c, d) yields a
\* formula true exactly when a = c and b = d, and never aborts.
C3_EqualityFormula ==
    (fact.tag = "Equality" /\ fstage \in {"converted", "aborted"}) =>
        /\ fstage = "converted"
        /\ EvalFormula(sexp, env) <=> (LS = RS /\ LE = RE)

-----------------------------------------------------------------------------
(* Errors (errors.rs).                                                     *)

NoError == [kind |-> "None", msg |-> ""]

\* Error::misc(msg)
Error_misc(msg) == [kind |-> "Misc", msg |-> msg]
\* Error::malformed(msg)
Error_malformed(msg) == [kind |-> "Malformed", msg |-> msg]

\* the conversion with the message passed through unprefixed
FromRsmt2ErrorBare(e) == Error_misc(e)

\* impl From<rsmt2::errors::Error> for Error
FromRsmt2Error(e) == Error_misc("SMT Error: " \o e)

\* impl Display for ErrorKind
DisplayError(err) ==
    CASE err.kind = "Misc" -> err.msg
      [] err.kind = "Malformed" -> err.msg
      [] OTHER -> ""

\* what rsmt2 reports: a transport failure, a malformed response, a timeout
Rsmt2Errors == {"broken pipe", "parse error", "timeout"}

-----------------------------------------------------------------------------
(* The solver session of Discharge.                                        *)
(*   Idle -declare-> Declared -(push, assert, check-sat, pop)*-> exit      *)

SolverAnswers == {"unsat", "sat", "unknown"}

\* sat treated as the only failing answer
IsFailureSatOnly(ans) == ans = "sat"

\* an unsat answer proves the fact; sat or unknown is a failure
IsFailure(ans) == ans # "unsat"

\* the diagnostic of a fact that was not proved
SmtFailure(i) == [kind |-> "SmtFailure", fact |-> i]

\* a command as sent: the session state and the push depth it was sent in
Cmd(c, i) == [cmd |-> c, fact |-> i, state |-> sstate, depth |-> depth]

\* a pop that leaves the scope open
DepthAfterPopKept(d) == d

\* pop 1
DepthAfterPop(d) == d - 1

\* a transport-level error closes the session
StateAfterError(st) == "Closed"

SessInit ==
    /\ sstate = "Idle"
    /\ depth = 0
    /\ cmds = <<>>
    /\ nfacts \in 0..MaxFacts
    /\ idx = 1
    /\ spc = "start"
    /\ answers = <<>>
    /\ diags = <<>>
    /\ dresult = "running"
    /\ derr = NoError
    /\ show_models \in BOOLEAN

SessIdle ==
    /\ sstate = "Idle"
    /\ depth = 0
    /\ cmds = <<>>
    /\ nfacts = 0
    /\ idx = 1
    /\ spc = "start"
    /\ answers = <<>>
    /\ diags = <<>>
    /\ dresult = "running"
    /\ derr = NoError
    /\ show_models = FALSE

\* declare-const per time variable in scope, assert the assumptions
Declare ==
    /\ spc = "start"
    /\ cmds' = Append(cmds, Cmd("declare", 0))
    /\ sstate' = "Declared"
    /\ spc' = "next"
    /\ UNCHANGED <<depth, nfacts, idx, answers, diags, dresult, derr, show_models>>
    /\ UNCHANGED <<factVars, runVars, parseVars, canonVars>>

\* push 1 for the next fact
Push ==
    /\ spc = "next"
    /\ idx <= nfacts
    /\ cmds' = Append(cmds, Cmd("push", idx))
    /\ depth' = depth + 1
    /\ spc' = "pushed"
    /\ UNCHANGED <<sstate, nfacts, idx, answers, diags, dresult, derr, show_models>>
    /\ UNCHANGED <<factVars, runVars, parseVars, canonVars>>

\* assert the negation of the fact
AssertNeg ==
    /\ spc = "pushed"
    /\ cmds' = Append(cmds, Cmd("assert", idx))
    /\ spc' = "asserted"
    /\ UNCHANGED <<sstate, depth, nfacts, idx, answers, diags, dresult, derr,
                   show_models>>
    /\ UNCHANGED <<factVars, runVars, parseVars, canonVars>>

\* check-sat; a fact that is not proved adds its diagnostic
CheckSat ==
    /\ spc = "asserted"
    /\ cmds' = Append(cmds, Cmd("check-sat", idx))
    /\ \E ans \in SolverAnswers :
          /\ answers' = Append(answers, ans)
          /\ diags' = IF IsFailure(ans) THEN Append(diags, SmtFailure(idx)) ELSE diags
          /\ spc' = IF IsFailure(ans) /\ show_models THEN "model" ELSE "checked"
    /\ UNCHANGED <<sstate, depth, nfacts, idx, dresult, derr, show_models>>
    /\ UNCHANGED <<factVars, runVars, parseVars, canonVars>>

\* get-model for a failed fact under --show-models
GetModel ==
    /\ spc = "model"
    /\ cmds' = Append(cmds, Cmd("get-model", idx))
    /\ spc' = "checked"
    /\ UNCHANGED <<sstate, depth, nfacts, idx, answers, diags, dresult, derr,
                   show_models>>
    /\ UNCHANGED <<factVars, runVars, parseVars, canonVars>>

\* pop 1, then on to the next fact
Pop ==
    /\ spc = "checked"
    /\ cmds' = Append(cmds, Cmd("pop", idx))
    /\ depth' = DepthAfterPop(depth)
    /\ idx' = idx + 1
    /\ spc' = "next"
    /\ UNCHANGED <<sstate, nfacts, answers, diags, dresult, derr, show_models>>
    /\ UNCHANGED <<factVars, runVars, parseVars, canonVars>>

\* every fact discharged: exit, and return the diagnostic list
Exit ==
    /\ spc = "next"
    /\ idx > nfacts
    /\ cmds' = Append(cmds, Cmd("exit", 0))
    /\ sstate' = "Closed"
    /\ dresult' = IF diags = <<>> THEN "ok" ELSE "diagnostics"
    /\ spc' = "done"
    /\ UNCHANGED <<depth, nfacts, idx, answers, diags, derr, show_models>>
    /\ UNCHANGED <<factVars, runVars, parseVars, canonVars>>

\* the solver process misbehaves: the ? on the rsmt2 result converts the
\* error and returns it
TransportError ==
    /\ spc # "done"
    /\ \E e \in Rsmt2Errors : derr' = FromRsmt2Error(e)
    /\ sstate' = StateAfterError(sstate)
    /\ dresult' = "fatal"
    /\ spc' = "done"
    /\ UNCHANGED <<depth, cmds, nfacts, idx, answers, diags, show_models>>
    /\ UNCHANGED <<factVars, runVars, parseVars, canonVars>>

SessNext ==
    \/ Declare
    \/ Push
    \/ AssertNeg
    \/ CheckSat
    \/ GetModel
    \/ Pop
    \/ Exit
    \/ TransportError

-----------------------------------------------------------------------------
(* The driver (main.rs): run and main.                                     *)

NoResult == <<"none">>
Ok == <<"Ok">>
Err(n) == <<"Err", n>>
Panicked == <<"panic">>
NoExit == -1

\* exit status of a Rust process whose main thread panicked: 101 when the
\* panic unwinds, 134 (SIGABRT) when the build aborts on panic
PanicExitCodes == {101, 134}

Opts ==
    [dump_dep_file : BOOLEAN, out : BOOLEAN, out_dir : BOOLEAN,
     unsafe_skip_discharge : BOOLEAN, dump_interface_file : BOOLEAN,
     check : BOOLEAN, backend : {"Verilog", "Calyx"}, show_models : BOOLEAN]

\* the passes that return their error count through `?`
FalliblePasses ==
    {"astconv", "BuildDomination1", "TypeCheck", "IntervalCheck", "PhantomCheck",
     "Assume", "Discharge", "BuildDomination2", "Simplify", "AssignCheck1",
     "BundleElim", "AssignCheck2"}

\* log_pass! / log_time! without `?`
InfalliblePasses == {"Monomorphize", "compile"}

\* the pass a position of run executes
PassName(pc) ==
    CASE pc \in {"BuildDomination1", "BuildDomination2"} -> "BuildDomination"
      [] pc \in {"AssignCheck1", "AssignCheck2"} -> "AssignCheck"
      [] OTHER -> pc

\* Discharge entered whatever the flag says
AfterAssumeAlways(o) == "Discharge"

\* if !opts.unsafe_skip_discharge { pass_pipeline! {opts, ir; ip::Discharge } }
AfterAssume(o) == IF ~o.unsafe_skip_discharge THEN "Discharge" ELSE "BuildDomination2"

\* after the interface dump: if opts.check { return Ok(()) }
AfterDumpInterface(o) == IF o.check THEN "return_ok" ELSE "compile"

\* the statement order of run
NextStage(pc, o) ==
    CASE pc = "parse" -> "depfile"
      [] pc = "depfile" -> "gen"
      [] pc = "gen" -> "astconv"
      [] pc = "astconv" -> "BuildDomination1"
      [] pc = "BuildDomination1" -> "TypeCheck"
      [] pc = "TypeCheck" -> "IntervalCheck"
      [] pc = "IntervalCheck" -> "PhantomCheck"
      [] pc = "PhantomCheck" -> "Assume"
      [] pc = "Assume" -> AfterAssume(o)
      [] pc = "Discharge" -> "BuildDomination2"
      [] pc = "BuildDomination2" -> "Monomorphize"
      [] pc = "Monomorphize" -> "Simplify"
      [] pc = "Simplify" -> "AssignCheck1"
      [] pc = "AssignCheck1" -> "BundleElim"
      [] pc = "BundleElim" -> "AssignCheck2"
      [] pc = "AssignCheck2" -> "dumpif"
      [] pc = "dumpif" -> AfterDumpInterface(o)
      [] pc = "compile" -> "backend"
      [] pc = "backend" -> "return_ok"

\* the `?` left out: run goes on to the next statement after a failed pass
AfterPassErrContinues(pc, o) == NextStage(pc, o)

\* `?` on a pass that reports errors: run returns at once
AfterPassErr(pc, o) == "returned"

RunInit ==
    /\ opts \in Opts
    /\ requires_gen \in BOOLEAN
    /\ rpc = "parse"
    /\ trace = <<>>
    /\ rres = NoResult
    /\ outputs = <<>>
    /\ stderr = <<>>
    /\ exitcode = NoExit

RunIdle ==
    /\ opts = [dump_dep_file |-> FALSE, out |-> FALSE, out_dir |-> FALSE,
               unsafe_skip_discharge |-> FALSE, dump_interface_file |-> FALSE,
               check |-> FALSE, backend |-> "Calyx", show_models |-> FALSE]
    /\ requires_gen = FALSE
    /\ rpc = "parse"
    /\ trace = <<>>
    /\ rres = NoResult
    /\ outputs = <<>>
    /\ stderr = <<>>
    /\ exitcode = NoExit

\* resolver.parse_namespace() returns the namespace
ParseOk ==
    /\ rpc = "parse"
    /\ trace' = Append(trace, "parse")
    /\ rpc' = NextStage(rpc, opts)
    /\ UNCHANGED <<opts, requires_gen, rres, outputs, stderr, exitcode>>
    /\ UNCHANGED <<factVars, sessVars, parseVars, canonVars>>

\* resolver.parse_namespace() fails: eprintln!("Error: {e:?}"); return Err(1)
ParseErr ==
    /\ rpc = "parse"
    /\ trace' = Append(trace, "parse")
    /\ stderr' = Append(stderr, "Error: parse error")
    /\ rres' = Err(1)
    /\ rpc' = "returned"
    /\ UNCHANGED <<opts, requires_gen, outputs, exitcode>>
    /\ UNCHANGED <<factVars, sessVars, parseVars, canonVars>>

\* the dependency file, written when both dump_dep_file and out are given;
\* File::create(..).unwrap() and write!(..).unwrap() panic on an I/O error
DumpDepFile ==
    /\ rpc = "depfile"
    /\ IF opts.dump_dep_file /\ opts.out
       THEN \E io_ok \in BOOLEAN :
              IF io_ok
              THEN /\ outputs' = Append(outputs, "dep_file")
                   /\ rpc' = NextStage(rpc, opts)
                   /\ rres' = rres
              ELSE /\ rres' = Panicked
                   /\ rpc' = "panicked"
                   /\ outputs' = outputs
       ELSE /\ rpc' = NextStage(rpc, opts)
            /\ UNCHANGED <<outputs, rres>>
    /\ UNCHANGED <<opts, requires_gen, trace, stderr, exitcode>>
    /\ UNCHANGED <<factVars, sessVars, parseVars, canonVars>>

\* initialise the generator; warn when the Calyx output will not compile
InitGen ==
    /\ rpc = "gen"
    /\ stderr' = IF requires_gen /\ ~opts.out_dir /\ opts.backend = "Calyx"
                 THEN Append(stderr, "warn: generated calyx program will NOT compile")
                 ELSE stderr
    /\ rpc' = NextStage(rpc, opts)
    /\ UNCHANGED <<opts, requires_gen, trace, rres, outputs, exitcode>>
    /\ UNCHANGED <<factVars, sessVars, parseVars, canonVars>>

\* a pass runs and succeeds
PassOk ==
    /\ rpc \in FalliblePasses \cup InfalliblePasses
    /\ trace' = Append(trace, PassName(rpc))
    /\ rpc' = NextStage(rpc, opts)
    /\ UNCHANGED <<opts, requires_gen, rres, outputs, stderr, exitcode>>
    /\ UNCHANGED <<factVars, sessVars, parseVars, canonVars>>

\* a pass runs and reports n errors: `?` returns Err(n) from run
PassErr ==
    /\ rpc \in FalliblePasses
    /\ trace' = Append(trace, PassName(rpc))
    /\ \E n \in 1..MaxErrors : rres' = Err(n)
    /\ rpc' = AfterPassErr(rpc, opts)
    /\ UNCHANGED <<opts, requires_gen, outputs, stderr, exitcode>>
    /\ UNCHANGED <<factVars, sessVars, parseVars, canonVars>>

\* if let Some(dump_file) = opts.dump_interface_file: create the file
\* (unwrap panics on an I/O error) and write the interface; then the
\* check-only return
DumpInterface ==
    /\ rpc = "dumpif"
    /\ IF opts.dump_interface_file
       THEN \E io_ok \in BOOLEAN :
              IF io_ok
              THEN /\ outputs' = Append(outputs, "interface")
                   /\ rpc' = NextStage(rpc, opts)
                   /\ rres' = rres
              ELSE /\ rres' = Panicked
                   /\ rpc' = "panicked"
                   /\ outputs' = outputs
       ELSE /\ rpc' = NextStage(rpc, opts)
            /\ UNCHANGED <<outputs, rres>>
    /\ UNCHANGED <<opts, requires_gen, trace, stderr, exitcode>>
    /\ UNCHANGED <<factVars, sessVars, parseVars, canonVars>>

\* match opts.backend: gen_verilog(calyx).unwrap() or
\* Printer::write_context(..).unwrap(); a backend failure panics
Backend ==
    /\ rpc = "backend"
    /\ \E backend_ok \in BOOLEAN :
          IF backend_ok
          THEN /\ outputs' = Append(outputs, opts.backend)
               /\ rpc' = NextStage(rpc, opts)
               /\ rres' = rres
          ELSE /\ rres' = Panicked
               /\ rpc' = "panicked"
               /\ outputs' = outputs
    /\ UNCHANGED <<opts, requires_gen, trace, stderr, exitcode>>
    /\ UNCHANGED <<factVars, sessVars, parseVars, canonVars>>

\* return Ok(()) (after drop(gen_exec) on the full path)
ReturnOk ==
    /\ rpc = "return_ok"
    /\ rres' = Ok
    /\ rpc' = "returned"
    /\ UNCHANGED <<opts, requires_gen, trace, outputs, stderr, exitcode>>
    /\ UNCHANGED <<factVars, sessVars, parseVars, canonVars>>

\* main, Ok(_) => (): the process ends with status 0
MainOk ==
    /\ rpc = "returned"
    /\ rres = Ok
    /\ exitcode' = 0
    /\ rpc' = "exited"
    /\ UNCHANGED <<opts, requires_gen, trace, rres, outputs, stderr>>
    /\ UNCHANGED <<factVars, sessVars, parseVars, canonVars>>

\* main, Err(err): print the error count and the hint, exit(1)
MainErr ==
    /\ rpc = "returned"
    /\ rres # Ok
    /\ stderr' =
          LET line == Append(stderr, "Compilation failed with errors.")
          IN  IF ~opts.show_models
              THEN Append(line, "Run with --show-models")
              ELSE line
    /\ exitcode' = 1
    /\ rpc' = "exited"
    /\ UNCHANGED <<opts, requires_gen, trace, rres, outputs>>
    /\ UNCHANGED <<factVars, sessVars, parseVars, canonVars>>

\* a panic in run leaves main by unwinding or abort, not by exit(1)
PanicExit ==
    /\ rpc = "panicked"
    /\ exitcode' \in PanicExitCodes
    /\ rpc' = "exited"
    /\ UNCHANGED <<opts, requires_gen, trace, rres, outputs, stderr>>
    /\ UNCHANGED <<factVars, sessVars, parseVars, canonVars>>

RunNext ==
    \/ ParseOk
    \/ ParseErr
    \/ DumpDepFile
    \/ InitGen
    \/ PassOk
    \/ PassErr
    \/ DumpInterface
    \/ Backend
    \/ ReturnOk
    \/ MainOk
    \/ MainErr
    \/ PanicExit

-----------------------------------------------------------------------------
(* Canonical time expressions.                                             *)

NoTime == [tag |-> "None"]

\* the total order on variable names
CanonVarOrder == <<"G", "T">>
VarRank(v) == CHOOSE i \in 1..Len(CanonVarOrder) : CanonVarOrder[i] = v

CanonLeaves ==
    {Abstract(CanonVarOrder[i]) : i \in 1..Len(CanonVarOrder)}
    \cup {Concrete(n) : n \in 1..MaxCanonConst}

\* The trees the grammar builds with exactly k Add / Max nodes:
\*   time_base = identifier | max(time, time) | bitwidth
\*   time_expr = time_base + time         time = time_expr | time_base
RECURSIVE TimeTrees(_), MaxTrees(_)
MaxTrees(k) ==
    IF k = 0 THEN {}
    ELSE UNION {{binop_max(l, r) : l \in TimeTrees(i), r \in TimeTrees(k - 1 - i)} :
                  i \in 0..(k - 1)}
BaseTrees(k) == IF k = 0 THEN CanonLeaves ELSE MaxTrees(k)
TimeTrees(k) ==
    BaseTrees(k)
    \cup (IF k = 0 THEN {}
          ELSE UNION {{binop_add(b, t) : b \in BaseTrees(i), t \in TimeTrees(k - 1 - i)} :
                        i \in 0..(k - 1)})
AllTimes == UNION {TimeTrees(k) : k \in 0..MaxOps}

\* operands are ordered variables first, constants last
TagRank(t) ==
    CASE t.tag = "Abstract" -> 0
      [] t.tag = "Max" -> 1
      [] t.tag = "Add" -> 2
      [] t.tag = "Concrete" -> 3

RECURSIVE TimeLess(_, _)
TimeLess(a, b) ==
    IF TagRank(a) # TagRank(b) THEN TagRank(a) < TagRank(b)
    ELSE CASE a.tag = "Abstract" -> VarRank(a.v) < VarRank(b.v)
           [] a.tag = "Concrete" -> a.n < b.n
           [] OTHER -> IF a.l # b.l THEN TimeLess(a.l, b.l) ELSE TimeLess(a.r, b.r)

RECURSIVE InsertSorted(_, _)
InsertSorted(x, seq) ==
    IF seq = <<>> THEN <<x>>
    ELSE IF TimeLess(seq[1], x) THEN <<seq[1]>> \o InsertSorted(x, Tail(seq))
         ELSE <<x>> \o seq

RECURSIVE SortOperands(_)
SortOperands(seq) ==
    IF seq = <<>> THEN <<>> ELSE InsertSorted(seq[1], SortOperands(Tail(seq)))

\* drops an operand equal to the one before it
RECURSIVE DropAdjacentDuplicates(_)
DropAdjacentDuplicates(seq) ==
    IF Len(seq) <= 1 THEN seq
    ELSE IF seq[1] = seq[2] THEN DropAdjacentDuplicates(Tail(seq))
         ELSE <<seq[1]>> \o DropAdjacentDuplicates(Tail(seq))

\* the operands of a nest of one operator, left to right
RECURSIVE Flatten(_, _)
Flatten(tag, e) ==
    IF e.tag = tag THEN Flatten(tag, e.l) \o Flatten(tag, e.r) ELSE <<e>>

IsConcrete(t) == t.tag = "Concrete"
NotConcrete(t) == t.tag # "Concrete"

RECURSIVE SumOf(_)
SumOf(seq) == IF seq = <<>> THEN 0 ELSE seq[1].n + SumOf(Tail(seq))

RECURSIVE MaxOf(_)
MaxOf(seq) ==
    IF Len(seq) = 1 THEN seq[1].n
    ELSE LET m == MaxOf(Tail(seq)) IN IF seq[1].n <= m THEN m ELSE seq[1].n

\* Add operands: constants folded into one, the rest sorted
NormalizeAdd(ops) ==
    LET consts == SelectSeq(ops, IsConcrete)
    IN  SortOperands(SelectSeq(ops, NotConcrete))
        \o (IF consts = <<>> THEN <<>> ELSE <<Concrete(SumOf(consts))>>)

\* Max operands with the duplicates dropped before the operands are sorted
NormalizeMaxDedupFirst(ops) ==
    LET consts == SelectSeq(ops, IsConcrete)
    IN  SortOperands(DropAdjacentDuplicates(SelectSeq(ops, NotConcrete)))
        \o (IF consts = <<>> THEN <<>> ELSE <<Concrete(MaxOf(consts))>>)

\* Max operands: constants collapse to the largest, the rest sorted and
\* duplicates dropped
NormalizeMax(ops) ==
    LET consts == SelectSeq(ops, IsConcrete)
    IN  DropAdjacentDuplicates(SortOperands(SelectSeq(ops, NotConcrete)))
        \o (IF consts = <<>> THEN <<>> ELSE <<Concrete(MaxOf(consts))>>)

\* the node of a sorted operand list
RECURSIVE BuildNode(_, _)
BuildNode(tag, ops) ==
    IF Len(ops) = 1 THEN ops[1]
    ELSE [tag |-> tag, l |-> ops[1], r |-> BuildNode(tag, Tail(ops))]

\* canonicalize(e): flatten nested Add / Max, fold constants, sort the
\* operands, drop duplicated Max operands
RECURSIVE canonicalize(_)
canonicalize(e) ==
    CASE e.tag = "Add" ->
            BuildNode("Add",
                NormalizeAdd(Flatten("Add", canonicalize(e.l))
                             \o Flatten("Add", canonicalize(e.r))))
      [] e.tag = "Max" ->
            BuildNode("Max",
                NormalizeMax(Flatten("Max", canonicalize(e.l))
                             \o Flatten("Max", canonicalize(e.r))))
      [] OTHER -> e

CanonInit ==
    /\ cexpr \in AllTimes
    /\ cout = NoTime
    /\ cstage = "parsed"

CanonIdle ==
    /\ cexpr = NoTime
    /\ cout = NoTime
    /\ cstage = "parsed"

\* the parsed expression is put in canonical form
Canonicalize ==
    /\ cstage = "parsed"
    /\ cout' = canonicalize(cexpr)
    /\ cstage' = "canonical"
    /\ UNCHANGED cexpr
    /\ UNCHANGED <<factVars, sessVars, runVars, parseVars>>

CanonNext == Canonicalize

-----------------------------------------------------------------------------
(* Port definitions (frontend/parser.rs, port_def).                        *)

NoParse == <<"none">>
NoPortDef == [arm |-> "none"]
None == <<>>
Some(v) == <<v>>
POk(v) == <<"Ok", v>>
PErr(msg) == <<"Err", msg>>

PortNames == {"p", "go"}
Bitwidths == {1, 32}

\* syntactic order of two time expressions: equal expressions, two
\* constants, or the same variable with constant offsets
Offset(t) ==
    CASE t.tag = "Concrete" -> [base |-> "const", off |-> t.n]
      [] t.tag = "Abstract" -> [base |-> t.v, off |-> 0]
      [] t.tag = "Add" /\ t.l.tag = "Abstract" /\ t.r.tag = "Concrete" ->
            [base |-> t.l.v, off |-> t.r.n]
      [] OTHER -> [base |-> "opaque", off |-> 0]

SyntacticLe(a, b) ==
    \/ a = b
    \/ /\ Offset(a).base # "opaque"
       /\ Offset(a).base = Offset(b).base
       /\ Offset(a).off <= Offset(b).off

\* Interval::new(range)
Interval_new(range) == [start |-> range.start, end |-> range.end, exact |-> None]

\* with_exact: attaches the exact sub-range, MalformedInterval when it is
\* not a syntactic sub-range of the outer range
with_exact(iv, exact) ==
    IF SyntacticLe(iv.start, exact.start) /\ SyntacticLe(exact.end, iv.end)
    THEN [start |-> iv.start, end |-> iv.end, exact |-> Some(exact)]
    ELSE [malformed |-> "MalformedInterval"]

\* PortDef::new(name, liveness, bitwidth): a Result
PortDef_new(name, liveness, bitwidth) ==
    IF "malformed" \in DOMAIN liveness
    THEN PErr(Error_malformed(liveness.malformed))
    ELSE POk([name |-> name, liveness |-> liveness, bitwidth |-> bitwidth])

Pd(port) == [kind |-> "Pd", port |-> port]
PdInt(name, time_var) == [kind |-> "Int", name |-> name, time_var |-> time_var]

\* .map(PdOrInt::Pd)
MapPd(res) == IF res[1] = "Ok" THEN POk(Pd(res[2])) ELSE res

\* pd.map_err(|err| input.error(format!("{err:?}")))
MapErr(res) == IF res[1] = "Err" THEN PErr(DisplayError(res[2])) ELSE res

\* the exact arm with the Result of PortDef::new unwrapped to a port
\* definition whatever it holds
port_def_exact_unchecked(range, exact, name, bitwidth) ==
    POk(Pd([name |-> name,
            liveness |-> [start |-> range.start, end |-> range.end, exact |-> Some(exact)],
            bitwidth |-> bitwidth]))

\* port_def, [interval_range(range), interval_range(exact), identifier(name),
\* bitwidth(bitwidth)]
port_def_exact(range, exact, name, bitwidth) ==
    MapErr(MapPd(PortDef_new(name, with_exact(Interval_new(range), exact), bitwidth)))

\* port_def, [interval_range(range), identifier(name), bitwidth(bitwidth)]
port_def_plain(range, name, bitwidth) ==
    MapErr(MapPd(PortDef_new(name, Interval_new(range), bitwidth)))

\* port_def, [interface(time_var), identifier(name), bitwidth(_)]
port_def_interface(time_var, name) == MapErr(POk(PdInt(name, time_var)))

\* port_def: the arm chosen by the children of the node
port_def(node) ==
    CASE node.arm = "interface" -> port_def_interface(node.time_var, node.name)
      [] node.arm = "plain" -> port_def_plain(node.range, node.name, node.bitwidth)
      [] node.arm = "exact" ->
            port_def_exact(node.range, node.exact, node.name, node.bitwidth)

-----------------------------------------------------------------------------
(* The io section of a signature (frontend/parser.rs, ports and io).       *)

NoIo == [form |-> "none"]

\* the port definitions an io node is built from: interface ports, plain
\* ports, and ports with an exact range inside and outside the outer range
IoPortDefs ==
    LET outer == Interval(Abstract("T"), binop_add(Abstract("T"), Concrete(2)))
        inside == Interval(Abstract("T"), binop_add(Abstract("T"), Concrete(1)))
        outside == Interval(Concrete(0), Concrete(1))
    IN  {[arm |-> "interface", time_var |-> tv, name |-> name, bitwidth |-> 1] :
            tv \in TimeVars, name \in PortNames}
        \cup {[arm |-> "plain", range |-> outer, name |-> name, bitwidth |-> 32] :
                name \in PortNames}
        \cup {[arm |-> "exact", range |-> outer, exact |-> exact, name |-> "p",
               bitwidth |-> 32] : exact \in {inside, outside}}

\* a ports node: up to MaxPorts port definitions
PortsNodes == UNION {[1..n -> IoPortDefs] : n \in 0..MaxPorts}

\* an io node: an arrow with an optional ports node on either side
IoNodes == [form : {"io"}, ins : {None} \cup {Some(ps) : ps \in PortsNodes},
            outs : {None} \cup {Some(ps) : ps \in PortsNodes}]

\* match_nodes!, [port_def(ins)..]: every child goes through port_def and
\* the first error is returned
RECURSIVE port_defs(_)
port_defs(nodes) ==
    IF nodes = <<>> THEN POk(<<>>)
    ELSE LET head == port_def(Head(nodes))
         IN  IF head[1] = "Err" THEN head
             ELSE LET rest == port_defs(Tail(nodes))
                  IN  IF rest[1] = "Err" THEN rest
                      ELSE POk(<<head[2]>> \o rest[2])

\* the loop of ports: PdOrInt::Pd is pushed to ports, PdOrInt::Int to
\* interface_signals
RECURSIVE ports_loop(_, _, _)
ports_loop(ins, ports_acc, interface_signals) ==
    IF ins = <<>> THEN <<ports_acc, interface_signals>>
    ELSE LET m == Head(ins)
         IN  IF m.kind = "Pd"
             THEN ports_loop(Tail(ins), Append(ports_acc, m.port), interface_signals)
             ELSE ports_loop(Tail(ins), ports_acc,
                             Append(interface_signals, <<m.name, m.time_var>>))

\* ports: (ports, interface_signals) of the children, or their error
ports(nodes) ==
    LET ins == port_defs(nodes)
    IN  IF ins[1] = "Err" THEN ins ELSE POk(ports_loop(ins[2], <<>>, <<>>))

\* every list of interface signals taken for empty
is_empty_always(v) == TRUE

\* Vec::is_empty
is_empty(v) == v = <<>>

OutputInterfaceError == PErr("Output interface ports not supported")

\* io: the four arms of match_nodes!
io(node) ==
    CASE node.ins = None /\ node.outs = None -> POk(<<<<>>, <<>>, <<>>>>)
      [] node.ins # None /\ node.outs = None ->
            LET l == ports(node.ins[1])
            IN  IF l[1] = "Err" THEN l ELSE POk(<<l[2][1], <<>>, l[2][2]>>)
      [] node.ins = None /\ node.outs # None ->
            LET r == ports(node.outs[1])
            IN  IF r[1] = "Err" THEN r
                ELSE IF ~is_empty(r[2][2]) THEN OutputInterfaceError
                ELSE POk(<<<<>>, r[2][1], <<>>>>)
      [] node.ins # None /\ node.outs # None ->
            LET l == ports(node.ins[1])
                r == ports(node.outs[1])
            IN  IF l[1] = "Err" THEN l
                ELSE IF r[1] = "Err" THEN r
                ELSE IF ~is_empty(r[2][2]) THEN OutputInterfaceError
                ELSE POk(<<l[2][1], r[2][1], l[2][2]>>)

ParseInit ==
    /\ pd_in = NoPortDef
    /\ pd_out = NoParse
    /\ io_in = NoIo
    /\ io_out = NoParse

ParseIdle ==
    /\ pd_in = NoPortDef
    /\ pd_out = NoParse
    /\ io_in = NoIo
    /\ io_out = NoParse

PortDefInterface ==
    /\ pd_in = NoPortDef
    /\ io_in = NoIo
    /\ \E tv \in TimeVars, name \in PortNames, bw \in Bitwidths :
          /\ pd_in' = [arm |-> "interface", time_var |-> tv, name |-> name,
                       bitwidth |-> bw]
          /\ pd_out' = port_def_interface(tv, name)
    /\ UNCHANGED <<io_in, io_out>>
    /\ UNCHANGED <<factVars, sessVars, runVars, canonVars>>

PortDefPlain ==
    /\ pd_in = NoPortDef
    /\ io_in = NoIo
    /\ \E range \in Intervals, name \in PortNames, bw \in Bitwidths :
          /\ pd_in' = [arm |-> "plain", range |-> range, name |-> name,
                       bitwidth |-> bw]
          /\ pd_out' = port_def_plain(range, name, bw)
    /\ UNCHANGED <<io_in, io_out>>
    /\ UNCHANGED <<factVars, sessVars, runVars, canonVars>>

PortDefExact ==
    /\ pd_in = NoPortDef
    /\ io_in = NoIo
    /\ \E range \in Intervals, exact \in Intervals, name \in PortNames,
          bw \in Bitwidths :
          /\ pd_in' = [arm |-> "exact", range |-> range, exact |-> exact,
                       name |-> name, bitwidth |-> bw]
          /\ pd_out' = port_def_exact(range, exact, name, bw)
    /\ UNCHANGED <<io_in, io_out>>
    /\ UNCHANGED <<factVars, sessVars, runVars, canonVars>>

\* io is applied to an io node
Io ==
    /\ pd_in = NoPortDef
    /\ io_in = NoIo
    /\ \E node \in IoNodes :
          /\ io_in' = node
          /\ io_out' = io(node)
    /\ UNCHANGED <<pd_in, pd_out>>
    /\ UNCHANGED <<factVars, sessVars, runVars, canonVars>>

ParseNext == PortDefInterface \/ PortDefPlain \/ PortDefExact \/ Io

-----------------------------------------------------------------------------
(* Specifications.                                                         *)

InitFact == FactInit /\ SessIdle /\ RunIdle /\ ParseIdle /\ CanonIdle
SpecFact == InitFact /\ [][FactNext]_vars

InitSession == SessInit /\ FactIdle /\ RunIdle /\ ParseIdle /\ CanonIdle
SpecSession == InitSession /\ [][SessNext]_vars

InitRun == RunInit /\ FactIdle /\ SessIdle /\ ParseIdle /\ CanonIdle
SpecRun == InitRun /\ [][RunNext]_vars

InitCanon == CanonInit /\ FactIdle /\ SessIdle /\ RunIdle /\ ParseIdle
SpecCanon == InitCanon /\ [][CanonNext]_vars

InitParse == ParseInit /\ FactIdle /\ SessIdle /\ RunIdle /\ CanonIdle
SpecParse == InitParse /\ [][ParseNext]_vars

-----------------------------------------------------------------------------
(* Properties of the solver session.                                       *)

\* the command sent before the k-th one
PrevCmd(k) == cmds[k - 1].cmd

\* C4: the commands follow Idle -declare-> Declared -(push, assert not F,
\* check-sat, pop)*-> exit -> Closed: nothing is asserted or checked before
\* the declarations, a check-sat follows the push and the assert of its own
\* fact and is popped before the next push, the push depth is 0 or 1, exit
\* is sent at depth 0 only, and nothing is sent to a closed session.
C4_SessionProtocol ==
    /\ depth \in {0, 1}
    /\ sstate = "Idle" => cmds = <<>>
    /\ \A k \in 1..Len(cmds) :
          LET c == cmds[k]
          IN  /\ c.state # "Closed"
              /\ (c.cmd = "declare") <=> (k = 1)
              /\ c.cmd = "declare" => c.state = "Idle"
              /\ c.cmd # "declare" => c.state = "Declared"
              /\ c.cmd = "push" =>
                    /\ c.depth = 0
                    /\ PrevCmd(k) \in {"declare", "pop"}
              /\ c.cmd = "assert" =>
                    /\ c.depth = 1
                    /\ PrevCmd(k) = "push"
                    /\ cmds[k - 1].fact = c.fact
              /\ c.cmd = "check-sat" =>
                    /\ c.depth = 1
                    /\ PrevCmd(k) = "assert"
                    /\ cmds[k - 1].fact = c.fact
              /\ c.cmd = "get-model" => PrevCmd(k) = "check-sat"
              /\ c.cmd = "pop" =>
                    /\ c.depth = 1
                    /\ PrevCmd(k) \in {"check-sat", "get-model"}
              /\ c.cmd = "exit" =>
                    /\ c.depth = 0
                    /\ k = Len(cmds)
                    /\ sstate = "Closed"

\* C4 witness: a session that discharged two facts and was closed by exit.
C4_Witness ==
    /\ sstate = "Closed"
    /\ dresult # "fatal"
    /\ Len(answers) >= 2
    /\ cmds[Len(cmds)].cmd = "exit"

\* C5: a transport error in any session state closes the session, surfaces
\* as an Error whose message starts with "SMT Error: ", ends the run (no
\* further step of the discharger is taken) and adds nothing to the
\* diagnostic list.
C5_TransportErrorFatal ==
    dresult = "fatal" =>
        /\ sstate = "Closed"
        /\ derr.kind = "Misc"
        /\ \E e \in Rsmt2Errors : DisplayError(derr) = "SMT Error: " \o e
        /\ ~ENABLED SessNext
        /\ Len(diags) = Cardinality({i \in 1..Len(answers) : answers[i] # "unsat"})
        /\ \A k \in 1..Len(diags) : diags[k].kind = "SmtFailure"

\* C5 witness: a transport error inside a push/pop scope, after an earlier
\* fact had failed.
C5_Witness ==
    /\ dresult = "fatal"
    /\ depth = 1
    /\ Len(diags) >= 1
    /\ derr # NoError

\* the facts among 1..n whose answer was not unsat, as diagnostics, in order
RECURSIVE FailedFacts(_, _)
FailedFacts(ans, n) ==
    IF n = 0 THEN <<>>
    ELSE IF ans[n] # "unsat"
         THEN Append(FailedFacts(ans, n - 1), [kind |-> "SmtFailure", fact |-> n])
         ELSE FailedFacts(ans, n - 1)

\* the facts check-sat was sent for, in the order sent
RECURSIVE CheckedFacts(_)
CheckedFacts(log) ==
    IF log = <<>> THEN <<>>
    ELSE LET rest == CheckedFacts(SubSeq(log, 1, Len(log) - 1))
             last == log[Len(log)]
         IN  IF last.cmd = "check-sat" THEN Append(rest, last.fact) ELSE rest

\* C6: without a transport error every fact is discharged exactly once in
\* emission order, whatever the earlier answers were, and the diagnostic
\* list holds exactly the facts whose answer was not unsat, in that order.
C6_BatchedDiagnostics ==
    dresult \in {"ok", "diagnostics"} =>
        /\ CheckedFacts(cmds) = [i \in 1..nfacts |-> i]
        /\ Len(answers) = nfacts
        /\ diags = FailedFacts(answers, nfacts)
        /\ (dresult = "ok") <=> (diags = <<>>)

\* C6 witness: three facts fail (sat, unknown, sat) and three diagnostics
\* are returned in source order.
C6_Witness ==
    /\ dresult = "diagnostics"
    /\ nfacts >= 3
    /\ SubSeq(answers, 1, 3) = <<"sat", "unknown", "sat">>
    /\ SubSeq(diags, 1, 3) = <<SmtFailure(1), SmtFailure(2), SmtFailure(3)>>

-----------------------------------------------------------------------------
(* Properties of the driver.                                               *)

\* the order of the passes of run, Discharge left out
PassOrder ==
    <<"parse", "astconv", "BuildDomination", "TypeCheck", "IntervalCheck",
      "PhantomCheck", "Assume", "BuildDomination", "Monomorphize", "Simplify",
      "AssignCheck", "BundleElim", "AssignCheck", "compile">>

NotDischarge(p) == p # "Discharge"
WithoutDischarge(t) == SelectSeq(t, NotDischarge)

IsPrefix(a, b) == Len(a) <= Len(b) /\ a = SubSeq(b, 1, Len(a))

\* where Discharge belongs: right after Assume
DischargeAt == (CHOOSE k \in 1..Len(PassOrder) : PassOrder[k] = "Assume") + 1

\* C7: with unsafe_skip_discharge set Discharge never runs and the other
\* passes run in the same order as without the flag; without the flag
\* Discharge runs exactly once, right after Assume and before the second
\* BuildDomination.
C7_SkipDischarge ==
    /\ IsPrefix(WithoutDischarge(trace), PassOrder)
    /\ rres = Ok =>
          WithoutDischarge(trace) =
             IF opts.check THEN SubSeq(PassOrder, 1, Len(PassOrder) - 1)
             ELSE PassOrder
    /\ opts.unsafe_skip_discharge =>
          \A k \in 1..Len(trace) : trace[k] # "Discharge"
    /\ ~opts.unsafe_skip_discharge =>
          \A k \in 1..Len(trace) : (trace[k] = "Discharge") <=> (k = DischargeAt)

\* C7 witness: a run with the flag set that went through every pass up to
\* compile and returned Ok.
C7_Witness ==
    /\ opts.unsafe_skip_discharge
    /\ rres = Ok
    /\ trace = PassOrder

\* C8 as stated: the process ends with status 0 exactly when run returned
\* Ok, and with status 1 on every failing path (parse error, diagnostics,
\* I/O failure on the dependency or interface file, backend failure).
C8_ExitCodes ==
    rpc = "exited" =>
        /\ (exitcode = 0) <=> (rres = Ok)
        /\ rres # Ok => exitcode = 1

\* parse, astconv and the five checking passes, in the order of run
PassesBeforeDischarge == SubSeq(PassOrder, 1, DischargeAt - 1)

\* Monomorphize and everything run starts after it
LaterPasses == {"Monomorphize", "Simplify", "AssignCheck", "BundleElim", "compile"}

\* run has returned an error count
ErrorReported == rres[1] = "Err"

\* Discharge starts with exactly parse .. Assume behind it
DischargeAfterChecks ==
    \A k \in 1..Len(trace) :
        trace[k] = "Discharge" => SubSeq(trace, 1, k - 1) = PassesBeforeDischarge

\* a later pass starts with parse .. Assume and the second BuildDomination
\* behind it, and with Discharge behind it unless the flag skips it
LaterAfterChecks ==
    \A k \in 1..Len(trace) :
        trace[k] \in LaterPasses =>
            /\ IsPrefix(SubSeq(PassOrder, 1, DischargeAt),
                        WithoutDischarge(SubSeq(trace, 1, k - 1)))
            /\ ~opts.unsafe_skip_discharge => trace[DischargeAt] = "Discharge"

\* the step that reports an error is the last step of run: no statement of
\* run is pending afterwards, and the stage that failed, the last one
\* started, is one that can fail
ErrorEndsRun ==
    ErrorReported =>
        /\ rpc \in {"returned", "exited"}
        /\ trace # <<>>
        /\ trace[Len(trace)] \notin {"Monomorphize", "compile"}

\* C12: the data flow of run is linear. Discharge starts only after parse,
\* astconv, BuildDomination, TypeCheck, IntervalCheck, PhantomCheck and
\* Assume ran in that order and none of them reported an error; once
\* parsing, astconv or a pass (Discharge included) has reported an error no
\* further pass and no compile starts.
C12_LinearDataFlow ==
    /\ [](DischargeAfterChecks /\ LaterAfterChecks /\ ErrorEndsRun)
    /\ [][ErrorReported => trace' = trace]_vars

\* C12 witness: Discharge ran after the seven stages before it and reported
\* errors; run ended there.
C12_Witness ==
    /\ ErrorReported
    /\ rpc = "exited"
    /\ trace = Append(PassesBeforeDischarge, "Discharge")

\* C13 as stated: when dump_interface_file is set, run writes the interface
\* and returns early, so compile is never invoked and no Verilog or Calyx
\* output is produced after the interface.
C13_DumpInterfaceReturnsEarly ==
    opts.dump_interface_file =>
        /\ \A k \in 1..Len(trace) : trace[k] # "compile"
        /\ \A k \in 1..Len(outputs) : outputs[k] \notin {"Verilog", "Calyx"}

-----------------------------------------------------------------------------
(* Properties of the port definitions.                                     *)

Assignments == [TimeVars -> 0..MaxAssign]

\* the exact range lies within the outer range under every assignment
ExactWithin(liveness) ==
    LET ex == liveness.exact[1]
    IN  \A a \in Assignments :
          /\ TimeValue(ex.start, a) >= TimeValue(liveness.start, a)
          /\ TimeValue(ex.end, a) <= TimeValue(liveness.end, a)

\* C9: with_exact fails with MalformedInterval when the exact range is not
\* a syntactic sub-range of the outer range, so every port definition the
\* parser accepts with an exact range has es >= start and ee <= end, and a
\* failure produces an error and no port definition.
C9_ExactSubRange ==
    (pd_in.arm = "exact") =>
        /\ pd_out[1] \in {"Ok", "Err"}
        /\ pd_out[1] = "Ok" =>
              /\ pd_out[2].kind = "Pd"
              /\ pd_out[2].port.liveness.exact = Some(pd_in.exact)
              /\ ExactWithin(pd_out[2].port.liveness)
        /\ ~(/\ SyntacticLe(pd_in.range.start, pd_in.exact.start)
             /\ SyntacticLe(pd_in.exact.end, pd_in.range.end)) =>
              pd_out = PErr("MalformedInterval")

\* C9 witness: an exact range that starts before the outer range is refused.
C9_Witness ==
    /\ pd_in.arm = "exact"
    /\ pd_in.range.start = Concrete(1)
    /\ pd_in.exact.start = Concrete(0)
    /\ pd_out = PErr("MalformedInterval")

-----------------------------------------------------------------------------
(* Properties of canonicalization.                                         *)

\* C10: canonicalization is idempotent: canonicalizing a canonical form
\* returns it unchanged.
C10_CanonIdempotent ==
    cstage = "canonical" => canonicalize(cout) = cout

\* C10 witness: max(T, max(G, T)) is flattened, sorted and loses its
\* duplicate: its canonical form is max(G, T).
C10_Witness ==
    /\ cstage = "canonical"
    /\ cexpr = binop_max(Abstract("T"), binop_max(Abstract("G"), Abstract("T")))
    /\ cout = binop_max(Abstract("G"), Abstract("T"))

-----------------------------------------------------------------------------
(* Connects against empty intervals. The obligation of a Connect is the    *)
(* fact Subset(Isrc, Idst): left is the source, right the destination.     *)

\* the negation of the formula is unsat: the formula holds under every
\* assignment of the time variables
Proved == \A a \in Assignments : EvalFormula(sexp, a)

\* start and end of the destination (of the source) denote the same cycle
DstEmpty ==
    \A a \in Assignments :
        TimeValue(fact.right.start, a) = TimeValue(fact.right.end, a)
DstNonEmpty ==
    \A a \in Assignments :
        TimeValue(fact.right.start, a) < TimeValue(fact.right.end, a)
SrcEmpty ==
    \A a \in Assignments :
        TimeValue(fact.left.start, a) = TimeValue(fact.left.end, a)

\* the source lies between the ends of the destination, ends included
SrcWithinDstEnds ==
    \A a \in Assignments :
        /\ TimeValue(fact.right.start, a) <= TimeValue(fact.left.start, a)
        /\ TimeValue(fact.left.end, a) <= TimeValue(fact.right.end, a)

\* C11 as stated: a connect against an empty destination is proved for
\* every source, and a connect from an empty source into a non-empty
\* destination is reported as a failure.
C11_EmptyIntervals ==
    ConvertedSubset =>
        /\ DstEmpty => Proved
        /\ (SrcEmpty /\ DstNonEmpty) => ~Proved

\* C11 amended: with an empty destination, and with an empty source and a
\* non-empty destination, the connect is proved exactly when the source
\* lies between the two ends of the destination, and fails otherwise.
C11_EmptyIntervalsByEnds ==
    ConvertedSubset =>
        /\ DstEmpty => (Proved <=> SrcWithinDstEnds)
        /\ (SrcEmpty /\ DstNonEmpty) => (Proved <=> SrcWithinDstEnds)

\* C11 witness: the empty source [1, 1) connected to the destination
\* [0, 2) is proved.
C11_Witness ==
    /\ ConvertedSubset
    /\ fact.left = Interval(Concrete(1), Concrete(1))
    /\ fact.right = Interval(Concrete(0), Concrete(2))
    /\ Proved

-----------------------------------------------------------------------------
(* Properties of the io section.                                           *)

\* the port definitions left and right of the arrow, in source order
InNodes == IF io_in.ins = None THEN <<>> ELSE io_in.ins[1]
OutNodes == IF io_in.outs = None THEN <<>> ELSE io_in.outs[1]

IsInterfaceNode(node) == node.arm = "interface"
IsPortNode(node) == node.arm # "interface"

HasOutputInterface == \E k \in 1..Len(OutNodes) : IsInterfaceNode(OutNodes[k])

\* port_def accepts every port definition of the io node
AllAccepted ==
    \A k \in 1..Len(InNodes \o OutNodes) : port_def((InNodes \o OutNodes)[k])[1] = "Ok"

\* the interface ports among the nodes as (name, time variable), in order
InterfaceSignalsOf(nodes) ==
    LET sel == SelectSeq(nodes, IsInterfaceNode)
    IN  [k \in 1..Len(sel) |-> <<sel[k].name, sel[k].time_var>>]

\* the ports port_def makes of the other nodes, in order
PortsOf(nodes) ==
    LET sel == SelectSeq(nodes, IsPortNode)
    IN  [k \in 1..Len(sel) |-> port_def(sel[k])[2].port]

\* C14 as stated: an interface port right of the arrow makes io fail with
\* "Output interface ports not supported" whatever else the io section
\* holds; otherwise what io returns is the input ports, the output ports
\* and the input side's interface ports in source order; an arrow alone
\* gives three empty lists.
C14_IoInterface ==
    io_in # NoIo =>
        /\ HasOutputInterface => io_out = OutputInterfaceError
        /\ (~HasOutputInterface /\ io_out[1] = "Ok") =>
              io_out[2] = <<PortsOf(InNodes), PortsOf(OutNodes),
                            InterfaceSignalsOf(InNodes)>>
        /\ (io_in.ins = None /\ io_in.outs = None) => io_out = POk(<<<<>>, <<>>, <<>>>>)

\* C14 amended: io never returns interface signals of the output side. When
\* port_def rejects a port definition of the io section, io fails with the
\* error of a rejected port definition; when all are accepted and one right
\* of the arrow is an interface port, io fails with "Output interface ports
\* not supported"; in both cases no ports are returned. Otherwise io
\* returns the input ports, the output ports and the input side's
\* interface ports, each in source order; an arrow alone gives three empty
\* lists.
C14_IoInterfaceAccepted ==
    io_in # NoIo =>
        /\ io_out[1] \in {"Ok", "Err"}
        /\ io_out[1] = "Ok" => ~HasOutputInterface
        /\ ~AllAccepted =>
              \E k \in 1..Len(InNodes \o OutNodes) :
                  /\ port_def((InNodes \o OutNodes)[k])[1] = "Err"
                  /\ io_out = port_def((InNodes \o OutNodes)[k])
        /\ (AllAccepted /\ HasOutputInterface) => io_out = OutputInterfaceError
        /\ (AllAccepted /\ ~HasOutputInterface) =>
              io_out = POk(<<PortsOf(InNodes), PortsOf(OutNodes),
                             InterfaceSignalsOf(InNodes)>>)
        /\ (io_in.ins = None /\ io_in.outs = None) => io_out = POk(<<<<>>, <<>>, <<>>>>)

\* C14 witness: an interface port and a port on the input side, a port and
\* an interface port on the output side; io failed with the error.
C14_Witness ==
    /\ io_in # NoIo
    /\ Len(InNodes) = 2 /\ IsInterfaceNode(InNodes[1]) /\ IsPortNode(InNodes[2])
    /\ Len(OutNodes) = 2 /\ IsPortNode(OutNodes[1]) /\ IsInterfaceNode(OutNodes[2])
    /\ AllAccepted
    /\ io_out = OutputInterfaceError

====
